---- MODULE Spec2Model ----
(***************************************************************************)
(* Model of the `new` subcommand (src/src/commands/new.rs): NewCommand::run *)
(* with list_templates, resolve_selection and run_template, and the pure    *)
(* matching functions is_match / is_terms_match / is_category_match.        *)
(*                                                                          *)
(* Strings are sequences of character codes, so that to_lowercase and the   *)
(* byte-wise String ordering used by sorted_by_key are computed, not        *)
(* assumed.  External collaborators (hub_api::index, dialoguer::Select,     *)
(* spin_templates::TemplateManager) are modelled by their outcome: each     *)
(* call either fails or succeeds with a value chosen from a small set.      *)
(*                                                                          *)
(* The model covers every value of the NewCommand struct.  The ArgGroup     *)
(* attribute (lines 8-12) makes the command-line parser build only values   *)
(* with exactly one of `list` / `name`; those are a subset of the values    *)
(* modelled here, and run() itself still tests both fields (lines 26, 30).  *)
(***************************************************************************)
EXTENDS Integers, Sequences, FiniteSets, TLC

(* ----------------------------- bounds ---------------------------------- *)

\* Largest number of entries the fetched index holds.
MaxEntries == 2

\* Largest number of -t search terms on the command line.
MaxTerms == 2

(* ----------------------------- strings --------------------------------- *)

\* Character codes (ASCII): 'A' = 65, 'B' = 66, 'a' = 97, 'b' = 98, ' ' = 32.
IsUpper(c) == c \in 65..90

IsSpace(c) == c = 32

\* char::to_lowercase on ASCII: an upper-case letter moves by 32, anything
\* else is unchanged.
ToLowerChar(c) == IF IsUpper(c) THEN c + 32 ELSE c

\* String::to_lowercase (new.rs:119, applied to every search term).
to_lowercase(s) == [i \in 1..Len(s) |-> ToLowerChar(s[i])]

\* Ord for String: lexicographic comparison of the bytes.
RECURSIVE StrLess(_, _)
StrLess(s, t) ==
    IF t = <<>> THEN FALSE
    ELSE IF s = <<>> THEN TRUE
    ELSE IF Head(s) < Head(t) THEN TRUE
    ELSE IF Head(s) > Head(t) THEN FALSE
    ELSE StrLess(Tail(s), Tail(t))

StrLeq(s, t) == s = t \/ StrLess(s, t)

\* str::split_whitespace: the maximal runs of non-space characters.
RECURSIVE SplitWs(_, _, _)
SplitWs(s, cur, acc) ==
    IF s = <<>> THEN (IF cur = <<>> THEN acc ELSE Append(acc, cur))
    ELSE IF IsSpace(Head(s))
         THEN SplitWs(Tail(s), <<>>, IF cur = <<>> THEN acc ELSE Append(acc, cur))
         ELSE SplitWs(Tail(s), Append(cur, Head(s)), acc)

split_whitespace(s) == SplitWs(s, <<>>, <<>>)

Range(f) == {f[i] : i \in DOMAIN f}

(* ------------------------- index entries ------------------------------- *)

\* hub_api::Category.  The source names one variant, Template; "Plugin"
\* stands for every other variant.
Category == {"Template", "Plugin"}

\* Titles an index entry may carry: "AB", "a b".  In byte order "AB" comes
\* first; ignoring case it would come last.
TitlePool == { <<65, 66>>, <<97, 32, 98>> }

\* Tag lists an index entry may carry: [], ["A"].
TagsPool == { <<>>, << <<65>> >> }

\* Search terms the user may type: "a", "A", "aB".
TermPool == { <<97>>, <<65>>, <<97, 66>> }

\* What the remote index says about one entry, before its position in the
\* index gives it an identity.
EntryShape == [title : TitlePool, tags : TagsPool, category : Category]

\* The k-th entry of an index: id "i<k>", url "u<k>", author "w<k>" and
\* summary "s<k>" are opaque strings, distinct per entry and from each other.
MkEntry(k, sh) ==
    [ id       |-> <<105, 48 + k>>,
      url      |-> <<117, 48 + k>>,
      author   |-> <<119, 48 + k>>,
      summary  |-> <<115, 48 + k>>,
      title    |-> sh.title,
      tags     |-> sh.tags,
      category |-> sh.category ]

SeqsUpTo(S, n) == UNION { [1..k -> S] : k \in 0..n }

\* Every index hub_api::index() may return.
Indexes ==
    { [k \in 1..Len(shs) |-> MkEntry(k, shs[k])] : shs \in SeqsUpTo(EntryShape, MaxEntries) }

\* IndexEntry accessors.
title(e) == e.title

\* IndexEntry::title_words: the lower-cased whitespace-separated words of
\* the title.
title_words(e) ==
    LET ws == split_whitespace(e.title)
    IN  [i \in 1..Len(ws) |-> to_lowercase(ws[i])]

\* IndexEntry::tags: the lower-cased tags.
tags(e) == [i \in 1..Len(e.tags) |-> to_lowercase(e.tags[i])]

category(e) == e.category

url(e) == e.url

id(e) == e.id

author(e) == e.author

summary(e) == e.summary

\* Vec::contains.
contains(v, x) == \E i \in 1..Len(v) : v[i] = x

(* --------------------------- matching ---------------------------------- *)

\* Variant that compares the terms as typed.
is_terms_match_no_fold(terms, e) ==
    \A k \in 1..Len(terms) :
        contains(tags(e), terms[k]) \/ contains(title_words(e), terms[k])

\* NewCommand::is_terms_match (new.rs:115-121).
is_terms_match(terms, e) ==
    \A k \in 1..Len(terms) :
        LET t == to_lowercase(terms[k])
        IN  contains(tags(e), t) \/ contains(title_words(e), t)

\* NewCommand::is_category_match (new.rs:123-125).
is_category_match(e) == category(e) = "Template"

\* Variant that forgets the category.
is_match_terms_only(terms, e) == is_terms_match(terms, e)

\* NewCommand::is_match (new.rs:110-113).
is_match(terms, e) == is_terms_match(terms, e) /\ is_category_match(e)

\* Insert e after every element whose key is <= its own (keeps the sort stable).
RECURSIVE InsertByTitle(_, _)
InsertByTitle(sorted, e) ==
    IF sorted = <<>> THEN <<e>>
    ELSE IF StrLeq(title(Head(sorted)), title(e))
         THEN <<Head(sorted)>> \o InsertByTitle(Tail(sorted), e)
         ELSE <<e>> \o sorted

RECURSIVE SortFrom(_, _)
SortFrom(s, acc) ==
    IF s = <<>> THEN acc ELSE SortFrom(Tail(s), InsertByTitle(acc, Head(s)))

\* Variant that returns the elements in iteration order.
sorted_by_key_unsorted(s) == s

\* Itertools::sorted_by_key(|e| e.title()): a stable sort by title.
sorted_by_key(s) == SortFrom(s, <<>>)

\* list_templates' pipeline (new.rs:49-52).
list_matches(terms, entries) ==
    sorted_by_key(SelectSeq(entries, LAMBDA e : is_terms_match(terms, e)))

\* resolve_selection's pipeline (new.rs:88).
resolve_matches(terms, entries) ==
    sorted_by_key(SelectSeq(entries, LAMBDA e : is_match(terms, e)))

\* Variant that hands back (id, url).
get_repo_and_id_swapped(e) == <<id(e), url(e)>>

\* get_repo_and_id (new.rs:128-133): (repo url, template id).
get_repo_and_id(e) == <<url(e), id(e)>>

(* ------------------------------ state ---------------------------------- *)

VARIABLES
    terms,      \* NewCommand.terms
    list,       \* NewCommand.list
    name,       \* NewCommand.name: None or Some(string)
    pc,         \* where run() is: the external call it is about to make
    entries,    \* what hub_api::index() returned: None until fetched
    matches,    \* the filtered and sorted list: None until computed
    items,      \* the titles handed to the selection prompt: None if not shown
    selected,   \* the index entry run() goes on with: None if there is none
    repo_id,    \* (repo, id) passed to run_template: None before it is entered
    calls,      \* the external calls made so far, with argument and outcome
    out,        \* the lines printed so far
    result      \* how run() ended

vars == <<terms, list, name, pc, entries, matches, items, selected, repo_id,
          calls, out, result>>

None == [some |-> FALSE]

Some(x) == [some |-> TRUE, val |-> x]

\* Application names the user may give: "app", "b".
NamePool == { <<97, 112, 112>>, <<98>> }

\* The messages the command prints.
MsgNoName == "Please provide a name for the application you want to create."

MsgNoMatch == "No templates match your search terms"

MsgListEntry == "Template: {}\nDescription: {}\n"

MsgTemplateBy == "Template {} by {}"

MsgSummary == "{}"

Line(fmt, args) == [fmt |-> fmt, args |-> args]

Call(what, arg, ok) == [call |-> what, arg |-> arg, ok |-> ok]

Pending == [kind |-> "pending", from |-> ""]

Ok == [kind |-> "Ok", from |-> ""]

\* Err(e) where e is the failure the named call returned.
Err(from) == [kind |-> "Err", from |-> from]

\* unwrap() on a failure: the thread panics.
Panic(from) == [kind |-> "panic", from |-> from]

\* PathBuf::from(&String): a path holding the string's bytes.
PathBuf_from(s) == [os_str |-> s]

\* RunOptions as built at new.rs:76-82.
RunOptions(nm) ==
    [ variant         |-> "NewApplication",
      name            |-> nm.val,
      output_path     |-> PathBuf_from(nm.val),
      values          |-> <<>>,
      accept_defaults |-> FALSE ]

Init ==
    /\ terms \in SeqsUpTo(TermPool, MaxTerms)
    /\ list \in BOOLEAN
    /\ name \in {None} \cup {Some(n) : n \in NamePool}
    /\ pc = "run"
    /\ entries = None
    /\ matches = None
    /\ items = None
    /\ selected = None
    /\ repo_id = None
    /\ calls = <<>>
    /\ out = <<>>
    /\ result = Pending

Return(r) == pc' = "returned" /\ result' = r

Abort(from) == pc' = "panicked" /\ result' = Panic(from)

(* --------------------------- list_templates ---------------------------- *)

\* run (26-28) -> list_templates (48): the index fetch fails and is unwrapped.
ListIndexFails ==
    /\ pc = "run" /\ list
    /\ calls' = Append(calls, Call("index", <<>>, FALSE))
    /\ Abort("index")
    /\ UNCHANGED <<terms, list, name, entries, matches, items, selected, repo_id, out>>

\* What list_templates prints for the matches (54-61).
list_output(ms) ==
    IF ms = <<>> THEN << Line(MsgNoMatch, <<>>) >>
    ELSE [i \in 1..Len(ms) |-> Line(MsgListEntry, <<title(ms[i]), summary(ms[i])>>)]

\* run (26-28) -> list_templates (47-64) with the index fetched.
ListTemplates ==
    /\ pc = "run" /\ list
    /\ \E idx \in Indexes :
        /\ entries' = Some(idx)
        /\ calls' = Append(calls, Call("index", <<>>, TRUE))
        /\ matches' = Some(list_matches(terms, idx))
        /\ out' = out \o list_output(list_matches(terms, idx))
    /\ Return(Ok)
    /\ UNCHANGED <<terms, list, name, items, selected, repo_id>>

(* ------------------------------- run ----------------------------------- *)

\* Variant in which the test of line 30 is missing.
name_is_given_unchecked(nm) == TRUE

\* !self.name.is_none() (30).
name_is_given(nm) == nm # None

\* run (30-33): no name was given.
RunNoName ==
    /\ pc = "run" /\ ~list /\ ~name_is_given(name)
    /\ out' = Append(out, Line(MsgNoName, <<>>))
    /\ Return(Ok)
    /\ UNCHANGED <<terms, list, name, entries, matches, items, selected, repo_id, calls>>

\* run (35) -> resolve_selection (87): the index fetch fails and is unwrapped.
ResolveIndexFails ==
    /\ pc = "run" /\ ~list /\ name_is_given(name)
    /\ calls' = Append(calls, Call("index", <<>>, FALSE))
    /\ Abort("index")
    /\ UNCHANGED <<terms, list, name, entries, matches, items, selected, repo_id, out>>

\* run (39-44) once resolve_selection returned Some(index_entry): print the
\* two lines, take (repo, id) and enter run_template.
Proceed(e) ==
    /\ selected' = Some(e)
    /\ out' = out \o << Line(MsgTemplateBy, <<title(e), author(e)>>),
                        Line(MsgSummary, <<summary(e)>>) >>
    /\ repo_id' = Some(get_repo_and_id(e))
    /\ pc' = "try_default"

\* resolve_selection (87-94) and run (35-37): nothing matches.
ResolveNoMatch ==
    /\ pc = "run" /\ ~list /\ name_is_given(name)
    /\ \E idx \in Indexes :
        /\ Len(resolve_matches(terms, idx)) = 0
        /\ entries' = Some(idx)
        /\ matches' = Some(resolve_matches(terms, idx))
    /\ calls' = Append(calls, Call("index", <<>>, TRUE))
    /\ out' = Append(out, Line(MsgNoMatch, <<>>))
    /\ Return(Ok)
    /\ UNCHANGED <<terms, list, name, items, selected, repo_id>>

\* resolve_selection (87-88, 95-98) and run (39-44): exactly one match.
ResolveSingle ==
    /\ pc = "run" /\ ~list /\ name_is_given(name)
    /\ \E idx \in Indexes :
        /\ Len(resolve_matches(terms, idx)) = 1
        /\ entries' = Some(idx)
        /\ matches' = Some(resolve_matches(terms, idx))
        /\ Proceed(resolve_matches(terms, idx)[1])
    /\ calls' = Append(calls, Call("index", <<>>, TRUE))
    /\ UNCHANGED <<terms, list, name, items, result>>

\* resolve_selection (87-88, 99-102): several matches, the prompt is shown.
ResolveSeveral ==
    /\ pc = "run" /\ ~list /\ name_is_given(name)
    /\ \E idx \in Indexes :
        LET ms == resolve_matches(terms, idx) IN
        /\ Len(ms) >= 2
        /\ entries' = Some(idx)
        /\ matches' = Some(ms)
        /\ items' = Some([i \in 1..Len(ms) |-> title(ms[i])])
    /\ calls' = Append(calls, Call("index", <<>>, TRUE))
    /\ pc' = "prompt"
    /\ UNCHANGED <<terms, list, name, selected, repo_id, out, result>>

\* Variant that takes the item after the one picked (wrapping round).
pick_next(ms, idx) == ms[((idx + 1) % Len(ms)) + 1]

\* matches[idx] (104) for the 0-based idx the prompt returns.
pick(ms, idx) == ms[idx + 1]

\* interact_opt (103-105) returns Ok(Some(idx)); run goes on (39-44).
PromptPick ==
    /\ pc = "prompt"
    /\ \E idx \in 0..(Len(matches.val) - 1) :
        /\ calls' = Append(calls, Call("prompt", <<idx>>, TRUE))
        /\ Proceed(pick(matches.val, idx))
    /\ UNCHANGED <<terms, list, name, entries, matches, items, result>>

\* Variant in which Esc falls back to the first item.
PromptCancel_takes_first ==
    /\ pc = "prompt"
    /\ calls' = Append(calls, Call("prompt", <<>>, TRUE))
    /\ Proceed(matches.val[1])
    /\ UNCHANGED <<terms, list, name, entries, matches, items, result>>

\* interact_opt returns Ok(None) (Esc): resolve_selection returns Ok(None),
\* run returns Ok(()) (35-37).
PromptCancel ==
    /\ pc = "prompt"
    /\ calls' = Append(calls, Call("prompt", <<>>, TRUE))
    /\ Return(Ok)
    /\ UNCHANGED <<terms, list, name, entries, matches, items, selected, repo_id, out>>

\* interact_opt fails: `?` (103) and `?` (35) hand the error to the caller.
PromptFails ==
    /\ pc = "prompt"
    /\ calls' = Append(calls, Call("prompt", <<>>, FALSE))
    /\ Return(Err("prompt"))
    /\ UNCHANGED <<terms, list, name, entries, matches, items, selected, repo_id, out>>

(* ---------------------------- run_template ----------------------------- *)

Frame == UNCHANGED <<terms, list, name, entries, matches, items, selected, repo_id, out>>

\* Variant in which the outcome of the call is dropped.
Step_ignoring_failure(at, what, arg, ok, next) ==
    /\ pc = at
    /\ calls' = Append(calls, Call(what, arg, ok))
    /\ pc' = next /\ UNCHANGED result
    /\ Frame

\* An external call of run_template that ends in `?`: on failure the error
\* is returned, on success run_template goes on to `next`.
Step(at, what, arg, ok, next) ==
    /\ pc = at
    /\ calls' = Append(calls, Call(what, arg, ok))
    /\ IF ok THEN pc' = next /\ UNCHANGED result
             ELSE Return(Err(what))
    /\ Frame

\* TemplateManager::try_default()? (69)
TryDefaultOk == Step("try_default", "try_default", <<>>, TRUE, "try_from_git")

TryDefaultFails == Step("try_default", "try_default", <<>>, FALSE, "try_from_git")

\* TemplateSource::try_from_git(&repo, &None, version)? (71)
TryFromGitOk == Step("try_from_git", "try_from_git", repo_id.val[1], TRUE, "install")

TryFromGitFails == Step("try_from_git", "try_from_git", repo_id.val[1], FALSE, "install")

\* manager.install(&source, ..).await? (73): the source is the one built
\* from repo.
InstallOk == Step("install", "install", repo_id.val[1], TRUE, "get")

InstallFails == Step("install", "install", repo_id.val[1], FALSE, "get")

\* manager.get(&id).unwrap().unwrap() (75): Ok(Some(template)).
GetOk ==
    /\ pc = "get"
    /\ calls' = Append(calls, Call("get", repo_id.val[2], TRUE))
    /\ pc' = "template_run"
    /\ UNCHANGED result
    /\ Frame

\* manager.get returns Err: the first unwrap panics.
GetFails ==
    /\ pc = "get"
    /\ calls' = Append(calls, Call("get", repo_id.val[2], FALSE))
    /\ Abort("get")
    /\ Frame

\* manager.get returns Ok(None), the installed source has no template of
\* that id: the second unwrap panics.
GetNone ==
    /\ pc = "get"
    /\ calls' = Append(calls, Call("get", repo_id.val[2], TRUE))
    /\ Abort("get_none")
    /\ Frame

\* template.run(options).interactive().await (76-83): its result is run's.
TemplateRunOk ==
    /\ pc = "template_run"
    /\ calls' = Append(calls, Call("template_run", RunOptions(name), TRUE))
    /\ Return(Ok)
    /\ Frame

TemplateRunFails ==
    /\ pc = "template_run"
    /\ calls' = Append(calls, Call("template_run", RunOptions(name), FALSE))
    /\ Return(Err("template_run"))
    /\ Frame

Next ==
    \/ ListIndexFails
    \/ ListTemplates
    \/ RunNoName
    \/ ResolveIndexFails
    \/ ResolveNoMatch
    \/ ResolveSingle
    \/ ResolveSeveral
    \/ PromptPick
    \/ PromptCancel
    \/ PromptFails
    \/ TryDefaultOk
    \/ TryDefaultFails
    \/ TryFromGitOk
    \/ TryFromGitFails
    \/ InstallOk
    \/ InstallFails
    \/ GetOk
    \/ GetFails
    \/ GetNone
    \/ TemplateRunOk
    \/ TemplateRunFails

Spec == Init /\ [][Next]_vars

\* The command invoked as `new --list [-t term]...`: the runs in which
\* is_terms_match alone decides what is shown.
InitList == Init /\ list /\ name = None

NextList == ListIndexFails \/ ListTemplates

SpecList == InitList /\ [][NextList]_vars

(* ------------------------ what the claims speak of --------------------- *)

\* Two characters that are the same letter in either case, or the same
\* character.
SameChar(c, d) ==
    \/ c = d
    \/ (c \in 65..90 /\ d = c + 32)
    \/ (d \in 65..90 /\ c = d + 32)

EqIgnoreCase(s, t) ==
    Len(s) = Len(t) /\ \A i \in 1..Len(s) : SameChar(s[i], t[i])

\* ttl[i..j] is a word of the title: a maximal run without spaces.
IsWordAt(ttl, i, j) ==
    /\ i <= j
    /\ \A k \in i..j : ttl[k] # 32
    /\ (i = 1 \/ ttl[i - 1] = 32)
    /\ (j = Len(ttl) \/ ttl[j + 1] = 32)

\* The term, ignoring case, is one of the entry's tags or one of the words
\* of its title.
TermOccurs(t, e) ==
    \/ \E k \in 1..Len(e.tags) : EqIgnoreCase(t, e.tags[k])
    \/ \E i, j \in 1..Len(e.title) :
          IsWordAt(e.title, i, j) /\ EqIgnoreCase(t, SubSeq(e.title, i, j))

TermsOccur(ts, e) == \A k \in 1..Len(ts) : TermOccurs(ts[k], e)

\* Positions of the index whose entry satisfies the search terms.
Satisfying(idx, ts) == {k \in 1..Len(idx) : TermsOccur(ts, idx[k])}

\* Positions of the index whose entry is a template satisfying the terms.
Scaffoldable(idx, ts) == {k \in Satisfying(idx, ts) : idx[k].category = "Template"}

CreateMode == ~list /\ name # None

Called(what) == \E i \in 1..Len(calls) : calls[i].call = what

Fetched == entries # None

ManagerCalls == {"try_default", "try_from_git", "install", "get", "template_run"}

(* -------------------------------- C1 ----------------------------------- *)

\* C1: every failing external call ends run() with that failure as its Err
\* result, and run() never ends in a panic.
C1_ErrorsPassThrough ==
    /\ pc # "panicked"
    /\ \A i \in 1..Len(calls) :
          ~calls[i].ok => (pc = "returned" /\ result = Err(calls[i].call))

(* -------------------------------- C2 ----------------------------------- *)

\* The place of each external step in the flow of create mode.
Rank(what) ==
    CASE what = "index"        -> 1
      [] what = "prompt"       -> 2
      [] what = "try_default"  -> 3
      [] what = "try_from_git" -> 4
      [] what = "install"      -> 5
      [] what = "get"          -> 6
      [] what = "template_run" -> 7

\* C2: in create mode the steps happen in the order fetch index, filter and
\* sort, (prompt), install, run: a step is started only after every earlier
\* one completed successfully; template.run needs a successful install, and
\* install needs a selected entry.
C2_StepsInOrder ==
    CreateMode =>
        /\ \A i, j \in 1..Len(calls) :
              i < j => (Rank(calls[i].call) < Rank(calls[j].call) /\ calls[i].ok)
        /\ (calls # <<>> => calls[1].call = "index")
        /\ (matches # None => (Fetched /\ calls[1].ok))
        /\ (Len(calls) >= 2 => matches # None)
        /\ (Called("prompt") => (items # None /\ Len(matches.val) >= 2))
        /\ (Called("install") => selected # None)
        /\ (Called("template_run") =>
               \E i \in 1..Len(calls) : calls[i].call = "install" /\ calls[i].ok)

\* Create mode went through the prompt and as far as template.run.
C2_Witness ==
    CreateMode /\ Called("prompt") /\ Called("template_run") /\ pc = "returned"

(* -------------------------------- C3 ----------------------------------- *)

\* Term lists that differ from ts only in the letter case of their terms.
CaseVariants(ts) ==
    {us \in [1..Len(ts) -> TermPool] :
        \A k \in 1..Len(ts) : EqIgnoreCase(us[k], ts[k])}

IsTitleSortedMatchList(ms, idx, ts) ==
    /\ Len(ms) = Cardinality(Scaffoldable(idx, ts))
    /\ \A k \in Scaffoldable(idx, ts) : \E i \in 1..Len(ms) : ms[i] = idx[k]
    /\ \A i, j \in 1..Len(ms) : i < j => StrLeq(ms[i].title, ms[j].title)

\* C4: in create mode the prompt is shown exactly when two or more entries
\* match; a single match is selected without a prompt; the item picked in
\* the prompt is the entry at that place of the title-sorted match list,
\* whose title was shown at that place.
C4_PromptOnlyToDisambiguate ==
    (CreateMode /\ Fetched) =>
        LET n == Cardinality(Scaffoldable(entries.val, terms)) IN
        /\ items # None <=> n >= 2
        /\ Called("prompt") => items # None
        /\ n = 1 =>
              /\ selected # None
              /\ \E k \in Scaffoldable(entries.val, terms) :
                    selected.val = entries.val[k]
        /\ \A i \in 1..Len(calls) :
              (calls[i].call = "prompt" /\ calls[i].ok /\ calls[i].arg # <<>>) =>
                 LET idx == calls[i].arg[1] IN
                 /\ IsTitleSortedMatchList(matches.val, entries.val, terms)
                 /\ Len(items.val) = Len(matches.val)
                 /\ \A m \in 1..Len(items.val) : items.val[m] = matches.val[m].title
                 /\ selected = Some(matches.val[idx + 1])
                 /\ items.val[idx + 1] = selected.val.title

\* The user picked the second item of a prompt whose order differs from the
\* order of the index.
C4_Witness ==
    /\ CreateMode /\ Fetched /\ selected # None
    /\ \E i \in 1..Len(calls) :
          calls[i].call = "prompt" /\ calls[i].ok /\ calls[i].arg = <<1>>
    /\ selected.val = entries.val[1]

(* -------------------------------- C5 ----------------------------------- *)

\* C5: run_template installs the selected entry's url, looks up the selected
\* entry's id, and runs the template with name and output_path both the name
\* argument, variant NewApplication and accept_defaults false.
C5_TemplateFromSelection ==
    /\ repo_id # None => selected # None
    /\ \A i \in 1..Len(calls) :
          /\ calls[i].call \in {"try_from_git", "install"} =>
                calls[i].arg = selected.val.url
          /\ calls[i].call = "get" => calls[i].arg = selected.val.id
          /\ calls[i].call = "template_run" =>
                /\ calls[i].arg.name = name.val
                /\ calls[i].arg.output_path.os_str = name.val
                /\ calls[i].arg.variant = "NewApplication"
                /\ calls[i].arg.accept_defaults = FALSE

\* template.run was called for the second entry of the index.
C5_Witness ==
    /\ Called("install") /\ Called("get") /\ Called("template_run")
    /\ Len(entries.val) = 2
    /\ selected.val = entries.val[2]
    /\ name = Some(<<97, 112, 112>>)

(* -------------------------------- C6 ----------------------------------- *)

\* The user left the prompt with Esc.
Cancelled ==
    \E i \in 1..Len(calls) :
        calls[i].call = "prompt" /\ calls[i].ok /\ calls[i].arg = <<>>

NoManagerCall == \A i \in 1..Len(calls) : calls[i].call \notin ManagerCalls

\* C6: in create mode, when no entry matches or the user cancels the prompt,
\* run returns Ok(()) without calling try_default, install or template.run;
\* with no match it has printed "No templates match your search terms".
C6_NothingSelectedNothingDone ==
    CreateMode =>
        /\ (Fetched /\ Scaffoldable(entries.val, terms) = {}) =>
              /\ pc = "returned" /\ result = Ok
              /\ NoManagerCall /\ selected = None /\ items = None
              /\ out = << Line(MsgNoMatch, <<>>) >>
        /\ Cancelled =>
              /\ pc = "returned" /\ result = Ok
              /\ NoManagerCall /\ selected = None
              /\ out = <<>>

\* The prompt was shown and the user cancelled it.
C6_Witness == CreateMode /\ Cancelled /\ items # None /\ pc = "returned"

(* -------------------------------- C7 ----------------------------------- *)

\* The position in idx of the entry a printed list line is about (0 if none):
\* summaries are distinct per entry.
LineEntry(idx, ln) ==
    IF \E k \in 1..Len(idx) : ln.args = <<idx[k].title, idx[k].summary>>
    THEN CHOOSE k \in 1..Len(idx) : ln.args = <<idx[k].title, idx[k].summary>>
    ELSE 0

\* lines shows exactly the entries of idx that satisfy ts, one line each, in
\* ascending title order, equal titles in index order.
IsListing(lines, idx, ts) ==
    /\ Len(lines) = Cardinality(Satisfying(idx, ts))
    /\ \A i \in 1..Len(lines) :
          /\ lines[i].fmt = MsgListEntry
          /\ LineEntry(idx, lines[i]) \in Satisfying(idx, ts)
    /\ \A i, j \in 1..Len(lines) :
          i < j =>
             LET a == LineEntry(idx, lines[i])
                 b == LineEntry(idx, lines[j])
             IN  \/ StrLess(idx[a].title, idx[b].title)
                 \/ (idx[a].title = idx[b].title /\ a < b)

\* C7: with the list flag set, run fetches the index once, prints exactly the
\* entries satisfying the terms in ascending title order (equal titles in
\* index order) or the no-match message, and returns Ok(()); it never shows
\* the prompt and never calls the template manager, whatever the name is.
C7_ListOnlyLists ==
    list =>
        /\ items = None /\ selected = None /\ repo_id = None
        /\ \A i \in 1..Len(calls) : calls[i].call = "index"
        /\ Len(calls) <= 1
        /\ pc \in {"run", "returned", "panicked"}
        /\ pc = "returned" =>
              /\ result = Ok
              /\ calls = << Call("index", <<>>, TRUE) >>
              /\ Fetched
              /\ IF Satisfying(entries.val, terms) = {}
                 THEN out = << Line(MsgNoMatch, <<>>) >>
                 ELSE IsListing(out, entries.val, terms)

\* List mode, given a name as well, printed two entries in the reverse of
\* their index order, one of them not a template.
C7_Witness ==
    /\ list /\ name # None /\ pc = "returned" /\ terms # <<>>
    /\ Len(entries.val) = 2 /\ Len(out) = 2
    /\ out[1].args[2] = entries.val[2].summary
    /\ entries.val[2].category = "Plugin"

(* -------------------------------- C8 ----------------------------------- *)

\* C8: for every index and every list of terms, the entries list mode prints
\* are the entries create mode would select or offer.
C8_ListAgreesWithCreate ==
    Fetched =>
        Range(list_matches(terms, entries.val)) =
            Range(resolve_matches(terms, entries.val))

(* -------------------------------- C9 ----------------------------------- *)

\* C9: the entry handed to install and run is a template that satisfies the
\* search terms; an entry of another category is never installed or run.
C9_OnlyTemplatesScaffolded ==
    /\ selected # None =>
          /\ selected.val.category = "Template"
          /\ TermsOccur(terms, selected.val)
          /\ \E k \in 1..Len(entries.val) : entries.val[k] = selected.val
    /\ \A i \in 1..Len(calls) :
          calls[i].call \in ManagerCalls =>
             /\ selected # None
             /\ \A k \in 1..Len(entries.val) :
                   entries.val[k].category # "Template" =>
                      calls[i].arg \notin {entries.val[k].url, entries.val[k].id}

\* A template was run although the index also holds an entry of another
\* category that satisfies the same, non-empty, terms.
C9_Witness ==
    /\ Called("template_run") /\ terms # <<>> /\ Len(entries.val) = 2
    /\ \E k \in 1..2 :
          entries.val[k].category = "Plugin" /\ TermsOccur(terms, entries.val[k])

(* -------------------------------- C10 ---------------------------------- *)

\* C10: run_template is entered only with a name; without the list flag and
\* without a name run prints the request for a name and returns Ok(()),
\* having fetched, prompted, installed and run nothing.
C10_NamePresentWhenUsed ==
    /\ (repo_id # None \/ pc \in ManagerCalls \/ ~NoManagerCall) =>
          (name # None /\ name.some /\ name.val \in NamePool)
    /\ (~list /\ name = None /\ pc # "run") =>
          /\ pc = "returned" /\ result = Ok
          /\ out = << Line(MsgNoName, <<>>) >>
          /\ calls = <<>> /\ entries = None /\ items = None /\ selected = None

\* run_template built its options from the name and ran the template.
C10_Witness ==
    /\ ~list /\ pc = "returned" /\ result = Ok /\ Called("template_run")
    /\ calls[Len(calls)].arg.name = name.val

====
